---- MODULE Spec2Model ----
(***************************************************************************)
(* Model of the process-program-data edge function                         *)
(* (supabase/functions/process-program-data/index.ts): one request is      *)
(* validated, sent to the completion service, the returned JSON graph is   *)
(* walked and written into the four relations of the store, and a single   *)
(* response is produced.  The store persists across invocations.           *)
(***************************************************************************)
EXTENDS Integers, Sequences, FiniteSets, TLC

\* ------------------------------------------------------------------ bounds
\* longest programs array the completion returns
MaxProgs == 2
\* most child entries (deadlines + people + links) the completion returns
MaxChildren == 2
\* number of invocations followed (resubmissions of the same message)
MaxInv == 2

\* ------------------------------------------------------------ input values
Titles == {"X", "Y"}
\* a JSON null standing where an entry object is expected
Null == "null"
Entries == Titles \cup {Null}
Keys == {"programs", "deadlines", "people", "links"}
ChildKeys == {"deadlines", "people", "links"}
Messages == {"", "msg"}
\* ids of auth.users; research_programs.user_id is a UUID column
Uuids == {"u1", "u2"}
\* userId of the request body: absent, or the id of a user (the chat client
\* sends the constant 'demo-user', see ChatSubmit)
UserIds == {"", "u1"}
ApiKeys == {"", "sk"}
\* auth.uid() of a request that carries no user session
Anon == "anon"
FetchFailures == {"network_error", "not_ok", "empty_body", "not_json"}

SeqsUpTo(S, n) == UNION {[1..k -> S] : k \in 0..n}

\* The child arrays the completion may return, at most MaxChildren entries
\* in all.
ChildArrays ==
  {t \in SeqsUpTo(Entries, MaxChildren) \X SeqsUpTo(Entries, MaxChildren)
         \X SeqsUpTo(Entries, MaxChildren) :
     Len(t[1]) + Len(t[2]) + Len(t[3]) <= MaxChildren}

Graph(ks, p, t) ==
  [keys |-> ks, programs |-> p, deadlines |-> t[1], people |-> t[2],
   links |-> t[3]]

\* The JSON objects the completion may return: `keys` are the keys present
\* in the object.  An object carries either all four keys or only the keys
\* of its non-empty arrays.
Contents ==
  UNION {{Graph(ks, p, t) :
            ks \in {Keys, {k \in Keys : Graph(Keys, p, t)[k] # <<>>}}} :
         p \in SeqsUpTo(Entries, MaxProgs), t \in ChildArrays}

\* the objects that follow the schema of the prompt: the four keys present,
\* every entry an object
WellFormed(c) ==
  /\ c.keys = Keys
  /\ \A k \in Keys : \A i \in 1..Len(c[k]) : c[k][i] # Null

WellFormedContents == {c \in Contents : WellFormed(c)}

\* the answers to a message that is submitted again and again: the message
\* is a short one, its graph stays below the longest graphs followed
ShortContents ==
  {c \in WellFormedContents :
     /\ Len(c.programs) < MaxProgs
     /\ Len(c.deadlines) + Len(c.people) + Len(c.links) < MaxChildren}

NoContent == [keys |-> {}, programs |-> <<>>, deadlines |-> <<>>,
              people |-> <<>>, links |-> <<>>]

\* the default dropped: the loop runs over undefined, which is not iterable
ArrNoDefault(data, k) == IF k \in data.keys THEN data[k] ELSE <<Null>>

\* extractedData.<k> || []
Arr(data, k) == IF k \in data.keys THEN data[k] ELSE <<>>

TableOf(k) ==
  CASE k = "deadlines" -> "program_deadlines"
    [] k = "people" -> "program_people"
    [] k = "links" -> "program_links"

\* the loop that follows loop k inside one program iteration
NextLoop(k) ==
  CASE k = "deadlines" -> "people"
    [] k = "people" -> "links"
    [] k = "links" -> "programs"

\* ------------------------------------------------------------------- state
VARIABLES
  pc,             \* position of the handler
  inv,            \* number of the current invocation
  req,            \* method and JSON body of the current request
  openAIApiKey,   \* Deno.env.get('OPENAI_API_KEY')
  completion,     \* texts the completion service has returned for the message
  fetchCalls,     \* completion calls made by the current invocation
  extractedData,  \* JSON.parse of the completion text
  results,        \* the results object being accumulated
  pi,             \* index of the program of the outer loop
  ci,             \* index of the entry of the running child loop
  programData,    \* row returned by the last program insert
  db,             \* the four relations of the store
  nextId,         \* next id the store assigns
  log,            \* insert attempts made so far, oldest first
  response,       \* the response of the current invocation
  fetched,        \* how the completion call of the current invocation ended
  chat,           \* state of the chat client: input, isLoading, messages
  inflight        \* calls the handler has started that have not returned

vars == <<pc, inv, req, openAIApiKey, completion, fetchCalls, extractedData,
          results, pi, ci, programData, db, nextId, log, response, fetched,
          chat, inflight>>

NoRow == [id |-> 0, user_id |-> "", title |-> "", inv |-> 0, src |-> 0]
NoChildRow == [id |-> 0, program_id |-> 0, program_title |-> "", inv |-> 0,
               src |-> 0, via |-> 0]
NoResults == [programs |-> <<>>, deadlines |-> <<>>, people |-> <<>>,
              links |-> <<>>, rawResponse |-> NoContent]
NoResponse == [status |-> 0, body |-> <<>>]
NoReq == [method |-> "", message |-> "", userId |-> "", caller |-> ""]

\* A message of the chat: its type, its content, and the data it carries;
\* of the data, `n` are the lengths of data.programs, deadlines, people and
\* links and `found` the length of the programs array of data.rawResponse.
\* `error` is the error of the response that the catch block logs.
Message(type, content, n, found, error) ==
  [type |-> type, content |-> content, n |-> n, found |-> found,
   error |-> error]

\* the state of ChatInterface after mount: the welcome message, empty input
NoChat == [input |-> "", isLoading |-> FALSE,
           messages |-> <<Message("system", "Welcome to ResearchTracker!",
                                  <<0, 0, 0, 0>>, 0, "")>>]

Init ==
  /\ pc = "idle"
  /\ inv = 1
  /\ req = NoReq
  /\ openAIApiKey = ""
  /\ completion = {}
  /\ fetchCalls = 0
  /\ extractedData = NoContent
  /\ results = NoResults
  /\ pi = 1
  /\ ci = 1
  /\ programData = NoRow
  /\ db = [research_programs |-> {}, program_deadlines |-> {},
           program_people |-> {}, program_links |-> {}]
  /\ nextId = 1
  /\ log = <<>>
  /\ response = NoResponse
  /\ fetched = "none"
  /\ chat = NoChat
  /\ inflight = <<>>

\* ------------------------------------------------------------- responses
\* the catch block without its status
CatchResponseNoStatus(msg) ==
  [status |-> 200, body |-> [error |-> msg, success |-> FALSE]]

\* the catch block: status 500, { error, success: false }
CatchResponse(msg) ==
  [status |-> 500, body |-> [error |-> msg, success |-> FALSE]]

\* new Response(JSON.stringify(results)): status defaults to 200
SuccessResponse(r) == [status |-> 200, body |-> r]

\* new Response(null, { headers: corsHeaders })
PreflightResponse == [status |-> 200, body |-> <<>>]

Throw(msg) ==
  /\ response' = CatchResponse(msg)
  /\ pc' = "done"

\* ------------------------------------------------------------ the handler
Receive(method, message, userId, key, caller) ==
  /\ pc = "idle"
  /\ req' = [method |-> method, message |-> message, userId |-> userId,
             caller |-> caller]
  /\ openAIApiKey' = key
  /\ pc' = "handle"
  /\ UNCHANGED <<inv, completion, fetchCalls, fetched, extractedData, results,
                 pi, ci, programData, db, nextId, log, response>>

Preflight ==
  /\ pc = "handle"
  /\ req.method = "OPTIONS"
  /\ response' = PreflightResponse
  /\ pc' = "done"
  /\ UNCHANGED <<chat, inv, req, openAIApiKey, completion, fetchCalls, fetched,
                 extractedData, results, pi, ci, programData, db, nextId, log>>

\* the userId is not looked at
InputMissingMessageOnly(r) == r.message = ""

\* !message || !userId
InputMissing(r) == r.message = "" \/ r.userId = ""

CheckInput ==
  /\ pc = "handle"
  /\ req.method # "OPTIONS"
  /\ IF InputMissing(req)
       THEN Throw("Message and userId are required")
       ELSE pc' = "checkKey" /\ UNCHANGED response
  /\ UNCHANGED <<chat, inv, req, openAIApiKey, completion, fetchCalls, fetched,
                 extractedData, results, pi, ci, programData, db, nextId, log>>

\* the credential check dropped
KeyNeverMissing(key) == FALSE

\* !openAIApiKey
KeyMissing(key) == key = ""

CheckKey ==
  /\ pc = "checkKey"
  /\ IF KeyMissing(openAIApiKey)
       THEN Throw("OpenAI API key not configured")
       ELSE pc' = "fetch" /\ UNCHANGED response
  /\ UNCHANGED <<chat, inv, req, openAIApiKey, completion, fetchCalls, fetched,
                 extractedData, results, pi, ci, programData, db, nextId, log>>

\* the results start from the extracted arrays instead of empty ones
InitResultsEcho(content) ==
  [programs |-> content.programs, deadlines |-> content.deadlines,
   people |-> content.people, links |-> content.links,
   rawResponse |-> content]

\* const results = { programs: [], deadlines: [], people: [], links: [],
\*                   rawResponse: aiResponse.choices[0].message.content }
InitResults(content) ==
  [programs |-> <<>>, deadlines |-> <<>>, people |-> <<>>, links |-> <<>>,
   rawResponse |-> content]

\* The completion call fails, or its answer cannot be parsed: fetch throws,
\* !response.ok, response.json() throws, JSON.parse throws.
FetchError(outcome) ==
  CASE outcome = "network_error" -> "fetch failed"
    [] outcome = "not_ok" -> "Failed to process message"
    [] outcome = "empty_body" -> "Unexpected end of JSON input"
    [] outcome = "not_json" -> "Unexpected token in JSON"

\* the status of the answer is not looked at and an empty body reads as {}
FetchFailsStatusIgnored(outcome) ==
  /\ pc = "fetch"
  /\ fetchCalls' = fetchCalls + 1
  /\ fetched' = outcome
  /\ IF outcome \in {"not_ok", "empty_body"}
       THEN /\ extractedData' = NoContent
            /\ results' = InitResults(NoContent)
            /\ pc' = "programs"
            /\ UNCHANGED response
       ELSE Throw(FetchError(outcome)) /\ UNCHANGED <<extractedData, results>>
  /\ UNCHANGED <<chat, inv, req, openAIApiKey, completion, pi, ci, programData,
                 db, nextId, log>>

\* a text that does not parse reads as {}
FetchFailsParseSwallowed(outcome) ==
  /\ pc = "fetch"
  /\ fetchCalls' = fetchCalls + 1
  /\ fetched' = outcome
  /\ IF outcome = "not_json"
       THEN /\ extractedData' = NoContent
            /\ results' = InitResults(NoContent)
            /\ pc' = "programs"
            /\ UNCHANGED response
       ELSE Throw(FetchError(outcome)) /\ UNCHANGED <<extractedData, results>>
  /\ UNCHANGED <<chat, inv, req, openAIApiKey, completion, pi, ci, programData,
                 db, nextId, log>>

FetchFails(outcome) ==
  /\ pc = "fetch"
  /\ fetchCalls' = fetchCalls + 1
  /\ fetched' = outcome
  /\ Throw(FetchError(outcome))
  /\ UNCHANGED <<chat, inv, req, openAIApiKey, completion, extractedData, results,
                 pi, ci, programData, db, nextId, log>>

\* The completion call answers with a JSON text, which is parsed.
FetchJson(content) ==
  /\ pc = "fetch"
  /\ fetchCalls' = fetchCalls + 1
  /\ fetched' = "json"
  /\ completion' = {content}
  /\ extractedData' = content
  /\ results' = InitResults(content)
  /\ pc' = "programs"
  /\ UNCHANGED <<chat, inv, req, openAIApiKey, pi, ci, programData, db, nextId, log,
                 response>>

\* ---------------------------------------------------------------- store
\* unshift in place of push
Unshift(seq, row) == <<row>> \o seq

\* results.<k>.push(row)
Push(seq, row) == Append(seq, row)

\* REFERENCES public.research_programs(id)
FKHolds(store, program_id) ==
  \E p \in store.research_programs : p.id = program_id

\* the row the program insert asks for; inv and src record the invocation
\* and the index of the programs entry it was built from
ProgramRow(id, userId, title, n, src) ==
  [id |-> id, user_id |-> userId, title |-> title, inv |-> n, src |-> src]

\* the parent looked up by title in the store instead of taken from the row
\* the program insert returned
ChildRowByTitle(id, parent, title, n, src, via) ==
  LET ids == {p.id : p \in {q \in db.research_programs : q.title = title}}
  IN  [id |-> id,
       program_id |-> CHOOSE m \in ids : \A o \in ids : m <= o,
       program_title |-> title, inv |-> n, src |-> src, via |-> via]

\* the row a child insert asks for; program_title, inv, src and via record
\* the entry's join key, the invocation, the index of the entry in its array
\* and the index of the program during whose iteration it was written
ChildRow(id, parent, title, n, src, via) ==
  [id |-> id, program_id |-> parent.id, program_title |-> title, inv |-> n,
   src |-> src, via |-> via]

\* a program with the title of a stored program of the user is not stored
\* again
InsertProgramDedup(store, row) ==
  IF \E p \in store.research_programs :
       p.user_id = row.user_id /\ p.title = row.title
    THEN store
    ELSE [store EXCEPT !.research_programs = @ \cup {row}]

\* an upsert on (user_id, title): the stored program of that title is
\* replaced
InsertProgramUpsert(store, row) ==
  [store EXCEPT !.research_programs =
     {p \in @ : ~(p.user_id = row.user_id /\ p.title = row.title)}
       \cup {row}]

\* .insert(...).select().single() on research_programs, accepted
InsertProgram(store, row) ==
  [store EXCEPT !.research_programs = @ \cup {row}]

\* .insert(...).select().single() on a child relation, accepted
InsertChild(store, table, row) ==
  [store EXCEPT ![table] = @ \cup {row}]

\* one awaited insert call: the relation, the indices of the program and of
\* the child entry it was built from, the program_id of its payload (0 in a
\* program insert) and whether the store accepted it
Attempt(table, pidx, cidx, ok) ==
  [inv |-> inv, table |-> table, pidx |-> pidx, cidx |-> cidx, ok |-> ok,
   program_id |-> IF cidx = 0 THEN 0 ELSE programData.id]

\* ---------------------------------------------------------- program loop
\* the continue dropped: the child loops run with the row of an earlier
\* program
ProgramInsertFailedNoContinue ==
  /\ log' = Append(log, Attempt("research_programs", pi, 0, FALSE))
  /\ pc' = "deadlines"
  /\ ci' = 1
  /\ UNCHANGED <<pi, programData, db, nextId, results, response>>

\* the failure of a program insert costs the next program its turn
ProgramInsertFailedSkipsNext ==
  /\ log' = Append(log, Attempt("research_programs", pi, 0, FALSE))
  /\ pi' = pi + 2
  /\ programData' = NoRow
  /\ UNCHANGED <<pc, ci, db, nextId, results, response>>

\* user_id UUID NOT NULL: a value that is no UUID is refused by the store
IsUuid(userId) == userId \in Uuids

\* a program whose insert failed is tried again until the store takes it
ProgramInsertFailedStays ==
  /\ log' = Append(log, Attempt("research_programs", pi, 0, FALSE))
  /\ programData' = NoRow
  /\ UNCHANGED <<pc, pi, ci, db, nextId, results, response>>

\* programError: console.error and continue
ProgramInsertFailed ==
  /\ log' = Append(log, Attempt("research_programs", pi, 0, FALSE))
  /\ pi' = pi + 1
  /\ programData' = NoRow
  /\ UNCHANGED <<pc, ci, db, nextId, results, response>>

\* a program whose title was inserted earlier in the batch leaves the
\* children to that earlier program
ProgramInsertedFirstOnly(row) ==
  /\ log' = Append(log, Attempt("research_programs", pi, 0, TRUE))
  /\ db' = InsertProgram(db, row)
  /\ nextId' = nextId + 1
  /\ programData' = row
  /\ results' = [results EXCEPT !.programs = Push(@, row)]
  /\ IF \E p \in db.research_programs : p.inv = row.inv /\ p.title = row.title
       THEN pc' = "programs" /\ pi' = pi + 1 /\ ci' = 1
       ELSE pc' = "deadlines" /\ pi' = pi /\ ci' = 1
  /\ UNCHANGED response

\* results.programs.push(programData), then the deadlines loop
ProgramInserted(row) ==
  /\ log' = Append(log, Attempt("research_programs", pi, 0, TRUE))
  /\ db' = InsertProgram(db, row)
  /\ nextId' = nextId + 1
  /\ programData' = row
  /\ results' = [results EXCEPT !.programs = Push(@, row)]
  /\ pc' = "deadlines"
  /\ ci' = 1
  /\ UNCHANGED <<pi, response>>

\* for (const program of extractedData.programs || [])
ProgramStep(ok) ==
  /\ pc = "programs"
  /\ LET programs == Arr(extractedData, "programs") IN
       IF pi > Len(programs)
         THEN /\ pc' = "respond"
              /\ UNCHANGED <<pi, ci, programData, db, nextId, log, results,
                             response>>
         ELSE IF programs[pi] = Null
           THEN /\ Throw("Cannot read properties of null (reading 'title')")
                /\ UNCHANGED <<pi, ci, programData, db, nextId, log, results>>
           ELSE IF ok /\ IsUuid(req.userId)
             THEN ProgramInserted(ProgramRow(nextId, req.userId, programs[pi],
                                             inv, pi))
             ELSE ProgramInsertFailed
  /\ UNCHANGED <<chat, inv, req, openAIApiKey, completion, fetchCalls, fetched,
                 extractedData>>

\* ------------------------------------------------------------ child loops
\* the title test dropped: every entry is taken for a child of the program
TitleMatchesAny(child, program) == TRUE

\* child.program_title === program.title
TitleMatches(child, program) == child = program

\* the data of a failed child insert (null) pushed all the same
ChildInsertFailedPushes(k) ==
  /\ log' = Append(log, Attempt(TableOf(k), pi, ci, FALSE))
  /\ results' = [results EXCEPT ![k] = Append(@, NoChildRow)]
  /\ ci' = ci + 1
  /\ UNCHANGED <<pc, pi, db, nextId, response>>

\* the error of a child insert rethrown
ChildInsertFailedThrows(k) ==
  /\ log' = Append(log, Attempt(TableOf(k), pi, ci, FALSE))
  /\ Throw("insert failed")
  /\ UNCHANGED <<pi, ci, db, nextId, results>>

\* a child insert that returned an error is made once more
ChildInsertFailedRetried(k) ==
  /\ log' = log \o <<Attempt(TableOf(k), pi, ci, FALSE),
                     Attempt(TableOf(k), pi, ci, FALSE)>>
  /\ ci' = ci + 1
  /\ UNCHANGED <<pc, pi, db, nextId, results, response>>

\* the insert returned an error: nothing is pushed, the loop goes on
ChildInsertFailed(k) ==
  /\ log' = Append(log, Attempt(TableOf(k), pi, ci, FALSE))
  /\ ci' = ci + 1
  /\ UNCHANGED <<pc, pi, db, nextId, results, response>>

\* the scan of an array stops at the first entry it inserts
ChildInsertedBreaks(k, row) ==
  /\ log' = Append(log, Attempt(TableOf(k), pi, ci, TRUE))
  /\ db' = InsertChild(db, TableOf(k), row)
  /\ nextId' = nextId + 1
  /\ results' = [results EXCEPT ![k] = Push(@, row)]
  /\ ci' = Len(Arr(extractedData, k)) + 1
  /\ UNCHANGED <<pc, pi, response>>

\* the row of a child goes to the front of its result array
ChildInsertedUnshifts(k, row) ==
  /\ log' = Append(log, Attempt(TableOf(k), pi, ci, TRUE))
  /\ db' = InsertChild(db, TableOf(k), row)
  /\ nextId' = nextId + 1
  /\ results' = [results EXCEPT ![k] = <<row>> \o @]
  /\ ci' = ci + 1
  /\ UNCHANGED <<pc, pi, response>>

\* if (!error) results.<k>.push(data)
ChildInserted(k, row) ==
  /\ log' = Append(log, Attempt(TableOf(k), pi, ci, TRUE))
  /\ db' = InsertChild(db, TableOf(k), row)
  /\ nextId' = nextId + 1
  /\ results' = [results EXCEPT ![k] = Push(@, row)]
  /\ ci' = ci + 1
  /\ UNCHANGED <<pc, pi, response>>

\* for (const child of extractedData.<k> || []) inside one program iteration
ChildStep(k, ok) ==
  /\ pc = k
  /\ LET arr == Arr(extractedData, k)
         program == Arr(extractedData, "programs")[pi]
     IN
       IF ci > Len(arr)
         THEN /\ pc' = NextLoop(k)
              /\ ci' = 1
              /\ pi' = IF k = "links" THEN pi + 1 ELSE pi
              /\ UNCHANGED <<db, nextId, log, results, response>>
         ELSE IF arr[ci] = Null
           THEN /\ Throw("Cannot read properties of null (reading 'program_title')")
                /\ UNCHANGED <<pi, ci, db, nextId, log, results>>
           ELSE IF ~TitleMatches(arr[ci], program)
             THEN /\ ci' = ci + 1
                  /\ UNCHANGED <<pc, pi, db, nextId, log, results, response>>
             ELSE IF ok /\ FKHolds(db, programData.id)
               THEN ChildInserted(k, ChildRow(nextId, programData, arr[ci],
                                              inv, ci, pi))
               ELSE ChildInsertFailed(k)
  /\ UNCHANGED <<chat, inv, req, openAIApiKey, completion, fetchCalls, fetched,
                 extractedData, programData>>

DeadlineStep == \E ok \in BOOLEAN : ChildStep("deadlines", ok)
PersonStep == \E ok \in BOOLEAN : ChildStep("people", ok)
LinkStep == \E ok \in BOOLEAN : ChildStep("links", ok)

\* return new Response(JSON.stringify(results), ...)
Respond ==
  /\ pc = "respond"
  /\ response' = SuccessResponse(results)
  /\ pc' = "done"
  /\ UNCHANGED <<chat, inv, req, openAIApiKey, completion, fetchCalls, fetched,
                 extractedData, results, pi, ci, programData, db, nextId, log>>

\* the next request reaches a fresh invocation of the handler; only the
\* store (and the history) outlives the previous one
NextInvocation ==
  /\ pc = "done"
  /\ inv < MaxInv
  /\ inv' = inv + 1
  /\ pc' = "idle"
  /\ req' = NoReq
  /\ openAIApiKey' = ""
  /\ fetchCalls' = 0
  /\ fetched' = "none"
  /\ extractedData' = NoContent
  /\ results' = NoResults
  /\ pi' = 1
  /\ ci' = 1
  /\ programData' = NoRow
  /\ response' = NoResponse
  /\ UNCHANGED <<completion, db, nextId, log, chat>>

\* a POST carries a JSON body; a preflight carries none; neither carries a
\* user session
ReceiveRequest ==
  /\ \/ \E message \in Messages, userId \in UserIds, key \in ApiKeys :
          Receive("POST", message, userId, key, Anon)
     \/ \E key \in ApiKeys : Receive("OPTIONS", "", "", key, Anon)
  /\ UNCHANGED chat

CompletionFails == \E outcome \in FetchFailures : FetchFails(outcome)

CompletionAnswers ==
  /\ pc = "fetch"
  /\ \E content \in Contents : FetchJson(content)

\* a resubmitted message gets the answer the first submission got
CompletionAnswersAgain ==
  /\ pc = "fetch"
  /\ \E content \in (IF completion = {} THEN ShortContents ELSE completion) :
       FetchJson(content)

InsertProgramStep == \E ok \in BOOLEAN : ProgramStep(ok)

\* one invocation of the handler, on any answer of the completion service
Next ==
  \/ ReceiveRequest /\ UNCHANGED inflight
  \/ Preflight /\ UNCHANGED inflight
  \/ CheckInput /\ UNCHANGED inflight
  \/ CheckKey /\ UNCHANGED inflight
  \/ CompletionFails /\ UNCHANGED inflight
  \/ CompletionAnswers /\ UNCHANGED inflight
  \/ InsertProgramStep /\ UNCHANGED inflight
  \/ DeadlineStep /\ UNCHANGED inflight
  \/ PersonStep /\ UNCHANGED inflight
  \/ LinkStep /\ UNCHANGED inflight
  \/ Respond /\ UNCHANGED inflight

Spec == Init /\ [][Next]_vars

\* the request of a client that sends the id of its user, sent again for
\* every submission
Resubmit ==
  /\ \E key \in ApiKeys : Receive("POST", "msg", "u1", key, Anon)
  /\ UNCHANGED chat

\* the same short message submitted MaxInv times, the completion service
\* following the schema of the prompt
NextTwice ==
  \/ Resubmit /\ UNCHANGED inflight
  \/ CheckInput /\ UNCHANGED inflight
  \/ CheckKey /\ UNCHANGED inflight
  \/ CompletionFails /\ UNCHANGED inflight
  \/ CompletionAnswersAgain /\ UNCHANGED inflight
  \/ InsertProgramStep /\ UNCHANGED inflight
  \/ DeadlineStep /\ UNCHANGED inflight
  \/ PersonStep /\ UNCHANGED inflight
  \/ LinkStep /\ UNCHANGED inflight
  \/ Respond /\ UNCHANGED inflight
  \/ NextInvocation /\ UNCHANGED inflight

SpecTwice == Init /\ [][NextTwice]_vars

\* ------------------------------------------------ calls and their returns
\* a call to the completion service (pidx = cidx = 0) or an insert
Call(to, pidx, cidx) == [to |-> to, pidx |-> pidx, cidx |-> cidx]

\* the call that the statement at the handler's position makes, if it makes
\* one: the fetch, the insert of the program of the outer loop, the insert
\* of an entry that passes the title test
Pending ==
  IF pc = "fetch" THEN {Call("completion", 0, 0)}
  ELSE IF pc = "programs"
    THEN LET programs == Arr(extractedData, "programs") IN
         IF pi <= Len(programs) /\ programs[pi] # Null
           THEN {Call("research_programs", pi, 0)}
           ELSE {}
  ELSE IF pc \in ChildKeys
    THEN LET arr == Arr(extractedData, pc) IN
         IF /\ ci <= Len(arr)
            /\ arr[ci] # Null
            /\ TitleMatches(arr[ci], Arr(extractedData, "programs")[pi])
           THEN {Call(TableOf(pc), pi, ci)}
           ELSE {}
  ELSE {}

\* the answers followed call by call: the four keys present, null entries
\* allowed, fewer child entries than the longest graphs have
IOContents ==
  {c \in Contents :
     /\ c.keys = Keys
     /\ Len(c.deadlines) + Len(c.people) + Len(c.links) < MaxChildren}

CompletionAnswersIO ==
  /\ pc = "fetch"
  /\ \E content \in IOContents : FetchJson(content)

\* the calls are fired without waiting for the one before
NotAwaited == Len(inflight) < 2

\* await: the handler makes a call only when no call of its own is pending
Awaited == inflight = <<>>

\* await fetch(...), await supabase.from(...).insert(...): the call leaves
CallStarts ==
  /\ Pending # {}
  /\ Awaited
  /\ \E c \in Pending : inflight' = Append(inflight, c)
  /\ UNCHANGED <<pc, inv, req, openAIApiKey, completion, fetchCalls, fetched,
                 extractedData, results, pi, ci, programData, db, nextId, log,
                 response, chat>>

\* the call in flight returns and the handler goes on with what it returned
CallReturns ==
  /\ Pending # {}
  /\ inflight # <<>>
  /\ inflight[1] \in Pending
  /\ inflight' = Tail(inflight)
  /\ \/ CompletionFails
     \/ CompletionAnswersIO
     \/ InsertProgramStep
     \/ DeadlineStep
     \/ PersonStep
     \/ LinkStep

\* the statements that make no call: the checks, the end of a loop, an entry
\* that fails the title test, a null entry, the response
Proceeds ==
  /\ Pending = {}
  /\ UNCHANGED inflight
  /\ \/ Preflight
     \/ CheckInput
     \/ CheckKey
     \/ InsertProgramStep
     \/ DeadlineStep
     \/ PersonStep
     \/ LinkStep
     \/ Respond

\* one invocation of the handler, every call split into its start and its
\* return
NextIO ==
  \/ ReceiveRequest /\ UNCHANGED inflight
  \/ CallStarts
  \/ CallReturns
  \/ Proceeds

SpecIO == Init /\ [][NextIO]_vars

\* every call that was started returns, and the handler, which nothing else
\* suspends, runs whenever it can
SpecIOFair ==
  /\ SpecIO
  /\ WF_vars(CallStarts)
  /\ WF_vars(CallReturns)
  /\ WF_vars(Proceeds)

\* ---------------------------------------------------------- the chat client
\* what may stand in the textarea
ChatInputs == {"", " ", " msg "}

\* the input is taken as typed
TrimNothing(text) == text

\* String.prototype.trim
Trim(text) ==
  CASE text = " msg " -> "msg"
    [] text = " " -> ""
    [] OTHER -> text

\* onChange={(e) => setInput(e.target.value)}; the textarea stays enabled
\* while a request is in flight
ChatType ==
  /\ \E text \in ChatInputs :
       /\ text # chat.input
       /\ chat' = [chat EXCEPT !.input = text]
  /\ UNCHANGED <<pc, inv, req, openAIApiKey, completion, fetchCalls, fetched,
                 extractedData, results, pi, ci, programData, db, nextId, log,
                 response>>

\* the apology carries the error of the response
ErrorMessageLeaks(error) ==
  Message("assistant", error, <<0, 0, 0, 0>>, 0, error)

\* catch (error): the assistant message of the catch block
ErrorMessage(error) ==
  Message("assistant",
          "I apologize, but I encountered an error processing your message.",
          <<0, 0, 0, 0>>, 0, error)

NothingFound ==
  "I didn't find any specific research program information in your message."

\* the summary looks into the raw answer of the completion service
GenerateSummaryMessageRaw(data) ==
  IF Len(data.programs) = 0
    THEN IF Len(Arr(data.rawResponse, "programs")) = 0
           THEN NothingFound
           ELSE "Some programs could not be saved."
    ELSE "Great! I've extracted the following information:"

\* generateSummaryMessage(data): !programs || programs.length === 0, else
\* the list of what was added
GenerateSummaryMessage(data) ==
  IF Len(data.programs) = 0
    THEN NothingFound
    ELSE "Great! I've extracted the following information:"

\* the assistant message of a success: content, and data: data
SummaryMessage(data) ==
  Message("assistant", GenerateSummaryMessage(data),
          <<Len(data.programs), Len(data.deadlines), Len(data.people),
            Len(data.links)>>,
          Len(Arr(data.rawResponse, "programs")), "")

\* handleSubmit up to the await: nothing happens on an input that trims to
\* nothing or while a request is in flight; else the user message is
\* appended, the input cleared, isLoading set and the function invoked with
\* userId 'demo-user'
ChatSubmit ==
  IF Trim(chat.input) = "" \/ chat.isLoading
    THEN UNCHANGED vars
    ELSE /\ chat' = [input |-> "", isLoading |-> TRUE,
                     messages |->
                       Append(chat.messages,
                              Message("user", Trim(chat.input),
                                      <<0, 0, 0, 0>>, 0, ""))]
         /\ \E key \in ApiKeys :
              Receive("POST", Trim(chat.input), "demo-user", key, Anon)

\* handleSubmit after the await: invoke gives an error for a response that
\* is not 2xx, which is thrown and caught; finally isLoading is reset
ChatDeliver ==
  /\ pc = "done"
  /\ chat.isLoading
  /\ chat' = [chat EXCEPT
       !.isLoading = FALSE,
       !.messages =
         Append(@, IF response.status # 200
                     THEN ErrorMessage(response.body.error)
                     ELSE SummaryMessage(response.body))]
  /\ UNCHANGED <<pc, inv, req, openAIApiKey, completion, fetchCalls, fetched,
                 extractedData, results, pi, ci, programData, db, nextId, log,
                 response>>

\* the next submission reaches a fresh invocation
ChatNextInvocation ==
  /\ ~chat.isLoading
  /\ NextInvocation

\* the answers to the messages of the chat: any programs array, the child
\* arrays left empty (they are not read, see NextChat)
ChatContents ==
  {c \in Contents : Len(c.deadlines) + Len(c.people) + Len(c.links) = 0}

CompletionAnswersChat ==
  /\ pc = "fetch"
  /\ \E content \in ChatContents : FetchJson(content)

\* the chat client and the invocations it causes; no program insert is
\* accepted for 'demo-user', so that the child loops are never entered
NextChat ==
  \/ ChatType /\ UNCHANGED inflight
  \/ ChatSubmit /\ UNCHANGED inflight
  \/ CheckInput /\ UNCHANGED inflight
  \/ CheckKey /\ UNCHANGED inflight
  \/ CompletionFails /\ UNCHANGED inflight
  \/ CompletionAnswersChat /\ UNCHANGED inflight
  \/ InsertProgramStep /\ UNCHANGED inflight
  \/ Respond /\ UNCHANGED inflight
  \/ ChatDeliver /\ UNCHANGED inflight
  \/ ChatNextInvocation /\ UNCHANGED inflight

SpecChat == Init /\ [][NextChat]_vars

\* ------------------------------------------------- the store, row by row
AllTables ==
  {"research_programs", "program_deadlines", "program_people",
   "program_links"}

\* a program is deleted and its children stay
DeleteProgramOnly(store, id) ==
  [store EXCEPT !.research_programs = {p \in @ : p.id # id}]

\* DELETE of the program row id, with ON DELETE CASCADE on the three
\* relations that reference it
CascadeDelete(store, id) ==
  [t \in AllTables |->
     IF t = "research_programs"
       THEN {p \in store[t] : p.id # id}
       ELSE {c \in store[t] : c.program_id # id}]

\* "Users can create their own programs": WITH CHECK (auth.uid() = user_id)
InsertPolicy(caller, row) == caller = row.user_id

\* "Users can delete their own programs": USING (auth.uid() = user_id)
DeletePolicy(caller, row) == caller = row.user_id

\* the policies of the child relations: EXISTS (SELECT 1 FROM
\* research_programs WHERE id = <child>.program_id AND user_id = auth.uid())
ChildPolicy(store, caller, row) ==
  \E p \in store.research_programs :
    p.id = row.program_id /\ p.user_id = caller

\* a signed-in user deletes one of the program rows the policy lets them
\* delete, while the handler is anywhere
DeleteProgram ==
  /\ \E caller \in Uuids : \E p \in db.research_programs :
       /\ DeletePolicy(caller, p)
       /\ db' = CascadeDelete(db, p.id)
  /\ UNCHANGED <<pc, inv, req, openAIApiKey, completion, fetchCalls, fetched,
                 extractedData, results, pi, ci, programData, nextId, log,
                 response, chat>>

\* a request that names user u1 in its body, sent by that user, by another
\* user or without a session
ReceiveFrom ==
  /\ \E caller \in Uuids \cup {Anon} :
       Receive("POST", "msg", "u1", "sk", caller)
  /\ UNCHANGED chat

\* the store accepts every insert that its constraints allow
AcceptedProgramStep == ProgramStep(TRUE)
AcceptedChildStep == \E k \in ChildKeys : ChildStep(k, TRUE)

\* the completion service follows the schema of the prompt
CompletionAnswersWell ==
  /\ pc = "fetch"
  /\ \E content \in WellFormedContents : FetchJson(content)

\* one invocation of the handler, interleaved with deletions of program rows
\* by their owners
NextStore ==
  \/ ReceiveFrom /\ UNCHANGED inflight
  \/ CheckInput /\ UNCHANGED inflight
  \/ CheckKey /\ UNCHANGED inflight
  \/ CompletionAnswersWell /\ UNCHANGED inflight
  \/ AcceptedProgramStep /\ UNCHANGED inflight
  \/ AcceptedChildStep /\ UNCHANGED inflight
  \/ Respond /\ UNCHANGED inflight
  \/ DeleteProgram /\ UNCHANGED inflight

SpecStore == Init /\ [][NextStore]_vars

\* ----------------------------------------------------------- cancellation
\* the rows of a cancelled invocation are taken back
CancelRollsBack ==
  /\ pc \notin {"idle", "done"}
  /\ pc' = "done"
  /\ db' = [t \in AllTables |-> {r \in db[t] : r.inv # inv}]
  /\ UNCHANGED <<inv, req, openAIApiKey, completion, fetchCalls, fetched,
                 extractedData, results, pi, ci, programData, nextId, log,
                 response, chat, inflight>>

\* the request is aborted while the handler is suspended: the invocation is
\* over, no response was built, and what it has inserted stays (every insert
\* is a statement of its own, there is no transaction)
Cancel ==
  /\ pc \notin {"idle", "done"}
  /\ pc' = "done"
  /\ UNCHANGED <<inv, req, openAIApiKey, completion, fetchCalls, fetched,
                 extractedData, results, pi, ci, programData, db, nextId, log,
                 response, chat, inflight>>

\* the answers with one program
OneProgramContents == {c \in WellFormedContents : Len(c.programs) = 1}

\* the first answer names one program; a resubmitted message gets the
\* answer the first submission got
CompletionAnswersOne ==
  /\ pc = "fetch"
  /\ \E content \in (IF completion = {} THEN OneProgramContents
                                         ELSE completion) :
       FetchJson(content)

\* a message submitted MaxInv times, any of the invocations cancelled on its
\* way, the store accepting every insert
NextCancel ==
  \/ Resubmit /\ UNCHANGED inflight
  \/ CheckInput /\ UNCHANGED inflight
  \/ CheckKey /\ UNCHANGED inflight
  \/ CompletionAnswersOne /\ UNCHANGED inflight
  \/ AcceptedProgramStep /\ UNCHANGED inflight
  \/ AcceptedChildStep /\ UNCHANGED inflight
  \/ Respond /\ UNCHANGED inflight
  \/ Cancel
  \/ NextInvocation /\ UNCHANGED inflight

SpecCancel == Init /\ [][NextCancel]_vars

\* ------------------------------------------------------- derived notions
ChildTables == {"program_deadlines", "program_people", "program_links"}

\* rows of a relation written by invocation n
WrittenBy(table, n) == {r \in db[table] : r.inv = n}

ChildRowsBy(n) == UNION {WrittenBy(t, n) : t \in ChildTables}

\* positions of the log that belong to invocation n
AttemptsBy(n) == {a \in 1..Len(log) : log[a].inv = n}

ProgramAttemptsBy(n) ==
  {a \in AttemptsBy(n) : log[a].table = "research_programs"}

ChildAttemptsBy(n) ==
  {a \in AttemptsBy(n) : log[a].table \in ChildTables}

\* the current invocation is a POST that has sent its response
Responded == pc = "done" /\ req.method = "POST"

\* the current invocation got a JSON answer from the completion service
Extracted == fetchCalls = 1 /\ results.rawResponse = extractedData
               /\ completion = {extractedData}

NoNullEntry(data) ==
  \A k \in Keys : \A i \in 1..Len(Arr(data, k)) : Arr(data, k)[i] # Null

\* elements of a sequence
Range(seq) == {seq[i] : i \in 1..Len(seq)}

ResultKeys == {"programs", "deadlines", "people", "links", "rawResponse"}
FailureKeys == {"error", "success"}

\* ----------------------------------------------------------------- claims
\* C1: no orphans.  Every Deadline, Person or Link row in the store carries
\* the program_id of a Program row that the same invocation inserted before
\* it, whose title is the row's program_title and is the title of an
\* extracted program; an entry whose program_title matches no extracted
\* program is never written.
C1_NoOrphans ==
  \A t \in ChildTables : \A c \in db[t] :
    /\ \E p \in db.research_programs :
         /\ p.id = c.program_id
         /\ p.inv = c.inv
         /\ p.id < c.id
         /\ p.title = c.program_title
         /\ p.src = c.via
    /\ \E g \in completion : c.program_title \in Range(g.programs)

\* a child of an inserted program was written while another entry of the
\* graph names a program that was not extracted
C1_Witness ==
  /\ pc = "done"
  /\ response.status = 200
  /\ ChildRowsBy(inv) # {}
  /\ \E k \in ChildKeys : \E j \in 1..Len(extractedData[k]) :
       extractedData[k][j] \notin Range(extractedData.programs)

\* C2: a program entry whose insert failed gets no child: no row is written
\* during its iteration, and unless another entry of the batch with the same
\* title was inserted, no row carrying its title is written at all.
C2_FailedProgramNoChildren ==
  \A a \in 1..Len(log) :
    (log[a].table = "research_programs" /\ ~log[a].ok) =>
      /\ \A c \in ChildRowsBy(log[a].inv) : c.via # log[a].pidx
      /\ \A c \in ChildRowsBy(log[a].inv) :
           c.program_title = extractedData.programs[log[a].pidx] =>
             \E p \in WrittenBy("research_programs", log[a].inv) :
               /\ p.id = c.program_id
               /\ p.src # log[a].pidx
               /\ p.title = c.program_title

\* two entries share a title, the insert of the first failed, the second was
\* inserted and got the child that carries the title
C2_Witness ==
  /\ pc = "done"
  /\ response.status = 200
  /\ Len(log) >= 3
  /\ log[1].table = "research_programs" /\ ~log[1].ok
  /\ log[2].table = "research_programs" /\ log[2].ok
  /\ extractedData.programs[1] = extractedData.programs[2]
  /\ \E c \in ChildRowsBy(inv) :
       c.via = 2 /\ c.program_title = extractedData.programs[1]

\* C3: failure isolation.  Once the invocation has walked a graph, whatever
\* inserts returned an error, every program entry was attempted, every
\* inserted program is in the store and in the result, and every entry that
\* matches an inserted program was attempted.
C3_FailureIsolation ==
  (pc = "done" /\ Extracted /\ NoNullEntry(extractedData)) =>
    /\ response.status = 200
    /\ \A i \in 1..Len(Arr(extractedData, "programs")) :
         \E a \in ProgramAttemptsBy(inv) : log[a].pidx = i
    /\ \A a \in ProgramAttemptsBy(inv) : log[a].ok =>
         /\ \E p \in WrittenBy("research_programs", inv) :
              p.src = log[a].pidx /\ p \in Range(response.body.programs)
         /\ \A k \in ChildKeys : \A j \in 1..Len(Arr(extractedData, k)) :
              Arr(extractedData, k)[j] = extractedData.programs[log[a].pidx] =>
                \E b \in ChildAttemptsBy(inv) :
                  /\ log[b].table = TableOf(k)
                  /\ log[b].pidx = log[a].pidx
                  /\ log[b].cidx = j

\* a child insert failed, a sibling was inserted after it and a later
\* program was attempted
C3_Witness ==
  /\ pc = "done"
  /\ \E a, b, c \in 1..Len(log) :
       /\ a < b /\ b < c
       /\ log[a].table \in ChildTables /\ ~log[a].ok
       /\ log[b].table \in ChildTables /\ log[b].ok
       /\ log[b].pidx = log[a].pidx
       /\ log[c].table = "research_programs" /\ log[c].pidx > log[a].pidx

\* C4: round trip.  One program, one deadline carrying its title, no people,
\* no links, no insert failing: the invocation writes exactly one Program row
\* and one Deadline row, and the Deadline's program_id is that Program's id.
C4_RoundTrip ==
  ( /\ Responded
    /\ Extracted
    /\ Len(extractedData.programs) = 1
    /\ extractedData.deadlines = <<extractedData.programs[1]>>
    /\ extractedData.people = <<>>
    /\ extractedData.links = <<>>
    /\ \A a \in AttemptsBy(inv) : log[a].ok ) =>
    /\ response.status = 200
    /\ Cardinality(WrittenBy("research_programs", inv)) = 1
    /\ Cardinality(WrittenBy("program_deadlines", inv)) = 1
    /\ WrittenBy("program_people", inv) = {}
    /\ WrittenBy("program_links", inv) = {}
    /\ \A p \in WrittenBy("research_programs", inv) :
         \A d \in WrittenBy("program_deadlines", inv) : d.program_id = p.id

\* the round trip made by a resubmission, the store holding the rows of the
\* first submission
C4_Witness ==
  /\ Responded
  /\ inv = 2
  /\ Len(extractedData.programs) = 1
  /\ extractedData.deadlines = <<extractedData.programs[1]>>
  /\ extractedData.people = <<>>
  /\ extractedData.links = <<>>
  /\ \A a \in 1..Len(log) : log[a].ok
  /\ WrittenBy("program_deadlines", 1) # {}
  /\ WrittenBy("program_deadlines", 2) # {}

\* C5: no idempotence.  After two invocations on the same graph in which
\* every insert succeeded, every extracted program has two rows with
\* different ids, one per invocation, each with its own row for every
\* matching child; no row of the second invocation refers to a row of the
\* first.
C5_NotIdempotent ==
  ( /\ Responded
    /\ inv = 2
    /\ response.status = 200
    /\ \A a \in 1..Len(log) : log[a].ok
    /\ {log[a].pidx : a \in ProgramAttemptsBy(1)}
         = 1..Len(extractedData.programs) ) =>
    /\ \A i \in 1..Len(extractedData.programs) : \A n \in 1..2 :
         \E p \in WrittenBy("research_programs", n) :
           /\ p.src = i
           /\ p.title = extractedData.programs[i]
           /\ \A q \in WrittenBy("research_programs", n) : q.src = i => q = p
           /\ \A k \in ChildKeys : \A j \in 1..Len(extractedData[k]) :
                extractedData[k][j] = extractedData.programs[i] =>
                  \E c \in WrittenBy(TableOf(k), n) :
                    c.program_id = p.id /\ c.src = j
    /\ \A p, q \in db.research_programs : p.inv # q.inv => p.id # q.id
    /\ \A c \in ChildRowsBy(2) : \A p \in WrittenBy("research_programs", 1) :
         c.program_id # p.id

\* both submissions went through, with a program and a child of it
C5_Witness ==
  /\ Responded
  /\ inv = 2
  /\ response.status = 200
  /\ \A a \in 1..Len(log) : log[a].ok
  /\ WrittenBy("research_programs", 1) # {}
  /\ WrittenBy("research_programs", 2) # {}
  /\ ChildRowsBy(1) # {}
  /\ ChildRowsBy(2) # {}

\* C6: without OPENAI_API_KEY the invocation fails before the completion
\* call and before any store write.
C6_MissingCredential ==
  (Responded /\ openAIApiKey = "") =>
    /\ response.status = 500
    /\ response.body.success = FALSE
    /\ fetchCalls = 0
    /\ AttemptsBy(inv) = {}
    /\ \A t \in ChildTables \cup {"research_programs"} : WrittenBy(t, inv) = {}

\* a well-formed request answered with the configuration error
C6_Witness ==
  /\ Responded
  /\ openAIApiKey = ""
  /\ ~InputMissing(req)
  /\ response.body.error = "OpenAI API key not configured"

\* C7: an empty programs array.  The result has its four arrays empty and no
\* insert is attempted, whatever the other arrays hold.
C7_EmptyPrograms ==
  ( /\ Responded
    /\ Extracted
    /\ "programs" \in extractedData.keys
    /\ extractedData.programs = <<>> ) =>
    /\ response.status = 200
    /\ \A k \in Keys : response.body[k] = <<>>
    /\ AttemptsBy(inv) = {}
    /\ \A t \in ChildTables \cup {"research_programs"} : WrittenBy(t, inv) = {}

\* no program, and a child entry in each kind of array that is not empty
C7_Witness ==
  /\ Responded
  /\ Extracted
  /\ "programs" \in extractedData.keys
  /\ extractedData.programs = <<>>
  /\ extractedData.deadlines # <<>>
  /\ extractedData.links # <<>>

TableFor(k) == IF k = "programs" THEN "research_programs" ELSE TableOf(k)

\* C8: on a success response each result sequence holds exactly the rows the
\* invocation persisted in the relation, once each, one per successful
\* insert, each built from an entry of the extracted array.
C8_ResultsArePersistedRows ==
  (Responded /\ response.status = 200) =>
    \A k \in Keys :
      /\ Range(response.body[k]) = WrittenBy(TableFor(k), inv)
      /\ Len(response.body[k]) = Cardinality(WrittenBy(TableFor(k), inv))
      /\ Len(response.body[k])
           = Cardinality({a \in AttemptsBy(inv) :
                            log[a].table = TableFor(k) /\ log[a].ok})
      /\ \A r \in Range(response.body[k]) :
           /\ r.src \in 1..Len(Arr(extractedData, k))
           /\ Arr(extractedData, k)[r.src]
                = (IF k = "programs" THEN r.title ELSE r.program_title)

\* a partial success: some insert failed, a child was persisted
C8_Witness ==
  /\ Responded
  /\ response.status = 200
  /\ \E a \in ProgramAttemptsBy(inv) : ~log[a].ok
  /\ \E a \in ChildAttemptsBy(inv) : ~log[a].ok
  /\ response.body.programs # <<>>
  /\ ChildRowsBy(inv) # {}

\* C9: programs are attempted in array order, none skipped, and
\* results.programs lists the inserted ones in that order.
C9_ProgramOrder ==
  /\ \A a, b \in ProgramAttemptsBy(inv) :
       a < b => log[a].pidx < log[b].pidx
  /\ {log[a].pidx : a \in ProgramAttemptsBy(inv)}
       = 1..Cardinality(ProgramAttemptsBy(inv))
  /\ \A i, j \in 1..Len(results.programs) :
       i < j => results.programs[i].src < results.programs[j].src
  /\ \A i \in 1..Len(results.programs) :
       /\ results.programs[i].src \in 1..Len(Arr(extractedData, "programs"))
       /\ results.programs[i].title
            = Arr(extractedData, "programs")[results.programs[i].src]
  /\ {r.src : r \in Range(results.programs)}
       = {log[a].pidx : a \in {b \in ProgramAttemptsBy(inv) : log[b].ok}}
  /\ (Responded /\ response.status = 200) =>
       response.body.programs = results.programs

\* two programs inserted and returned
C9_Witness ==
  /\ Responded
  /\ response.status = 200
  /\ Len(response.body.programs) = 2
  /\ response.body.programs[1].title # response.body.programs[2].title

\* C10: a POST is answered either with status 200 and the five result keys,
\* or with status 500 and { error, success: false }, never a mix.
C10_TwoOutcomes ==
  Responded =>
    \/ /\ response.status = 200
       /\ DOMAIN response.body = ResultKeys
    \/ /\ response.status = 500
       /\ DOMAIN response.body = FailureKeys
       /\ response.body.success = FALSE

\* a failure raised after rows were written
C10_Witness ==
  /\ Responded
  /\ response.status = 500
  /\ AttemptsBy(inv) # {}
  /\ ChildRowsBy(inv) # {}

\* C11: when the completion call answers with a non-success status or with
\* an empty body, the invocation answers with the failure response, attempts
\* no insert and writes no row.
C11_UpstreamFailure ==
  (pc = "done" /\ fetched \in {"not_ok", "empty_body"}) =>
    /\ response.status = 500
    /\ response.body.success = FALSE
    /\ AttemptsBy(inv) = {}
    /\ \A t \in AllTables : WrittenBy(t, inv) = {}

\* the resubmission meets a non-success status, the store holding the rows
\* of the first submission
C11_Witness ==
  /\ Responded
  /\ inv = 2
  /\ fetched = "not_ok"
  /\ response.body.error = "Failed to process message"
  /\ WrittenBy("research_programs", 1) # {}

\* C12: when the completion text is not JSON, the invocation answers with
\* the failure response, attempts no insert and writes no row.
C12_MalformedOutput ==
  (pc = "done" /\ fetched = "not_json") =>
    /\ response.status = 500
    /\ response.body.success = FALSE
    /\ DOMAIN response.body = FailureKeys
    /\ AttemptsBy(inv) = {}
    /\ \A t \in AllTables : WrittenBy(t, inv) = {}

\* a well-formed request, the credential present, one completion call made,
\* its text not JSON
C12_Witness ==
  /\ Responded
  /\ fetched = "not_json"
  /\ ~InputMissing(req)
  /\ openAIApiKey # ""
  /\ fetchCalls = 1
  /\ response.status = 500

\* C13: an answer that lacks some of the four keys.  The invocation answers
\* with the results all the same; a missing key gives an empty result array
\* and no insert in its relation; the keys that are present are walked as
\* usual: every program entry is attempted, and for every inserted program
\* every entry carrying its title is attempted, the results holding one row
\* per accepted insert.
C13_MissingKeysDefault ==
  LET present == extractedData.keys IN
  ( /\ pc = "done"
    /\ Extracted
    /\ present # Keys
    /\ \A k \in present : \A i \in 1..Len(extractedData[k]) :
         extractedData[k][i] # Null ) =>
    /\ response.status = 200
    /\ DOMAIN response.body = ResultKeys
    /\ \A k \in Keys \ present :
         /\ response.body[k] = <<>>
         /\ \A a \in AttemptsBy(inv) : log[a].table # TableFor(k)
    /\ "programs" \in present =>
         \A i \in 1..Len(extractedData.programs) :
           \E a \in ProgramAttemptsBy(inv) : log[a].pidx = i
    /\ \A k \in present :
         Len(response.body[k]) =
           Cardinality({a \in AttemptsBy(inv) :
                          log[a].table = TableFor(k) /\ log[a].ok})
    /\ \A k \in ChildKeys \cap present : \A a \in ProgramAttemptsBy(inv) :
         log[a].ok =>
           \A j \in 1..Len(extractedData[k]) :
             extractedData[k][j] = extractedData.programs[log[a].pidx] =>
               \E b \in ChildAttemptsBy(inv) :
                 /\ log[b].table = TableFor(k)
                 /\ log[b].pidx = log[a].pidx
                 /\ log[b].cidx = j

\* the answer has programs and one child key only, and a child was written
C13_Witness ==
  /\ pc = "done"
  /\ response.status = 200
  /\ "programs" \in extractedData.keys
  /\ Cardinality(extractedData.keys) = 2
  /\ ChildRowsBy(inv) # {}

\* C14: nothing is retried.  An invocation calls the completion service at
\* most once, and no entry is the subject of two insert calls: within one
\* invocation a program entry is attempted at most once and a child entry at
\* most once per program iteration, whether the call failed or not.
C14_NoRetry ==
  /\ fetchCalls <= 1
  /\ \A a, b \in 1..Len(log) :
       ( /\ a # b
         /\ log[a].inv = log[b].inv
         /\ log[a].table = log[b].table
         /\ log[a].pidx = log[b].pidx ) => log[a].cidx # log[b].cidx

\* an invocation went to its end after a program insert and a child insert
\* had failed
C14_Witness ==
  /\ pc = "done"
  /\ response.status = 200
  /\ fetchCalls = 1
  /\ \E a \in ProgramAttemptsBy(inv) : ~log[a].ok
  /\ \E b \in ChildAttemptsBy(inv) : ~log[b].ok

\* C19: after a program insert that failed, the next insert call of the
\* invocation, if there is one, is the insert of the next entry of the
\* programs array; and when the invocation goes to its end there is one
\* unless the failed entry was the last.
C19_FailedProgramThenNextProgram ==
  \A a \in 1..Len(log) :
    (log[a].table = "research_programs" /\ ~log[a].ok) =>
      /\ (a < Len(log) /\ log[a + 1].inv = log[a].inv) =>
           /\ log[a + 1].table = "research_programs"
           /\ log[a + 1].pidx = log[a].pidx + 1
      /\ ( /\ log[a].inv = inv
           /\ pc = "done"
           /\ response.status = 200
           /\ log[a].pidx < Len(Arr(extractedData, "programs")) ) =>
           (a < Len(log) /\ log[a + 1].inv = inv)

\* the first program failed although an entry carries its title; the second
\* was inserted next and got its child
C19_Witness ==
  /\ pc = "done"
  /\ response.status = 200
  /\ Len(log) >= 3
  /\ log[1].table = "research_programs" /\ ~log[1].ok
  /\ log[2].table = "research_programs" /\ log[2].ok
  /\ log[3].table \in ChildTables /\ log[3].pidx = 2
  /\ \E k \in ChildKeys : \E j \in 1..Len(Arr(extractedData, k)) :
       Arr(extractedData, k)[j] = extractedData.programs[1]

\* the key of the extracted object whose entries go to a child relation
KeyOf(table) == CHOOSE k \in ChildKeys : TableOf(k) = table

\* C20: the child inserts of an inserted program.  Every child insert made
\* during the iteration of a program comes after the program's insert, is
\* built from an entry whose program_title equals the program's title, and
\* carries as program_id the id the store gave to this program, which is the
\* id of no other program; and once the iteration is over, every entry of
\* the three arrays that carries the title has been attempted.
C20_ChildrenOfInsertedProgram ==
  \A a \in ProgramAttemptsBy(inv) : log[a].ok =>
    LET i == log[a].pidx
        title == extractedData.programs[i]
    IN  \E p \in WrittenBy("research_programs", inv) :
          /\ p.src = i
          /\ \A q \in db.research_programs : q.id = p.id => q = p
          /\ \A b \in ChildAttemptsBy(inv) : log[b].pidx = i =>
               /\ a < b
               /\ Arr(extractedData, KeyOf(log[b].table))[log[b].cidx] = title
               /\ log[b].program_id = p.id
          /\ pi > i =>
               \A k \in ChildKeys : \A j \in 1..Len(Arr(extractedData, k)) :
                 Arr(extractedData, k)[j] = title <=>
                   \E b \in ChildAttemptsBy(inv) :
                     /\ log[b].table = TableOf(k)
                     /\ log[b].pidx = i
                     /\ log[b].cidx = j

\* two programs were inserted; an array holds an entry of the second before
\* an entry of the first, and both were attempted, each under its program
C20_Witness ==
  /\ pc = "done"
  /\ response.status = 200
  /\ \E k \in ChildKeys : \E a, b \in ChildAttemptsBy(inv) :
       /\ a < b
       /\ log[a].table = TableOf(k) /\ log[b].table = TableOf(k)
       /\ log[a].pidx = 1 /\ log[b].pidx = 2
       /\ log[a].cidx = 2 /\ log[b].cidx = 1
       /\ log[a].program_id # log[b].program_id

\* C15: deleting a Program row removes the rows that reference it.  In every
\* state reached by inserts and deletions of programs, each Deadline, Person
\* and Link row refers to a Program row of the store.
C15_DeleteCascades ==
  \A t \in ChildTables : \A c \in db[t] : FKHolds(db, c.program_id)

\* a program that had got a child was deleted, while another program still
\* has its child
C15_Witness ==
  /\ \E a \in 1..Len(log) :
       /\ log[a].table \in ChildTables
       /\ log[a].ok
       /\ ~FKHolds(db, log[a].program_id)
  /\ \E t \in ChildTables : db[t] # {}

\* C18: every write is restricted to rows owned by the authenticated caller.
\* Every Program row written by an invocation satisfies the insert policy
\* for the caller of the request, and every child row it wrote hangs from a
\* program of that caller.
C18_WritesOwnedByCaller ==
  /\ \A p \in WrittenBy("research_programs", inv) :
       InsertPolicy(req.caller, p)
  /\ \A t \in ChildTables : \A c \in WrittenBy(t, inv) :
       ChildPolicy(db, req.caller, c)

\* assistant messages of the chat that answer a failure, and a success
Failures ==
  {i \in 1..Len(chat.messages) :
     chat.messages[i].type = "assistant" /\ chat.messages[i].error # ""}
Successes ==
  {i \in 1..Len(chat.messages) :
     chat.messages[i].type = "assistant" /\ chat.messages[i].error = ""}

\* the message of the error an invocation threw
Thrown ==
  IF InputMissing(req) THEN "Message and userId are required"
  ELSE IF KeyMissing(openAIApiKey) THEN "OpenAI API key not configured"
  ELSE IF fetched \in FetchFailures THEN FetchError(fetched)
  ELSE "Cannot read properties of null (reading 'title')"

\* C16, as claimed: every fatal error gives the caller the same failure
\* message.  The failure responses received in a session all carry the same
\* error.
C16_OneFailureMessage ==
  \A i, j \in Failures : chat.messages[i].error = chat.messages[j].error

\* C16, amended: a failure response has status 500, success false, and as
\* error the message of the error thrown, which tells the kinds of fatal
\* error apart; the chat client answers every failure with one and the same
\* apology.
C16_FailureMessages ==
  /\ (Responded /\ response.status # 200) =>
       /\ response.status = 500
       /\ DOMAIN response.body = FailureKeys
       /\ response.body.success = FALSE
       /\ response.body.error = Thrown
  /\ \A i \in Failures :
       chat.messages[i].content = ErrorMessage("").content
  /\ \A i, j \in Failures :
       chat.messages[i].content = chat.messages[j].content

\* a session met the missing credential and a non-success status of the
\* completion service, and answered both with the apology
C16_Witness ==
  \E i, j \in Failures :
    /\ chat.messages[i].error = "OpenAI API key not configured"
    /\ chat.messages[j].error = "Failed to process message"
    /\ chat.messages[i].content = chat.messages[j].content

\* C17, as claimed: the response of an invocation that found programs and
\* saw every program insert fail is a response that an invocation that
\* found no program could have given.
C17_IndistinguishableResponses ==
  ( /\ Responded
    /\ response.status = 200
    /\ Len(Arr(extractedData, "programs")) > 0
    /\ \A a \in ProgramAttemptsBy(inv) : ~log[a].ok ) =>
    \E c \in Contents :
      /\ Len(Arr(c, "programs")) = 0
      /\ response.body = InitResults(c)

\* C17, amended: when every program insert failed the four result arrays of
\* the response are empty, as they are when no program was found, and the
\* chat client shows the same message in both cases; the response itself
\* differs from that of the other case by its rawResponse only.
C17_SameSummary ==
  /\ ( /\ Responded
       /\ response.status = 200
       /\ \A a \in ProgramAttemptsBy(inv) : ~log[a].ok ) =>
       response.body = InitResults(extractedData)
  /\ \A i, j \in Successes :
       chat.messages[i].n = chat.messages[j].n =>
         chat.messages[i].content = chat.messages[j].content
  /\ \A i \in Successes :
       chat.messages[i].n[1] = 0 => chat.messages[i].content = NothingFound

\* a session got an answer without programs and an answer with programs, of
\* which none was saved, and showed the same message for both
C17_Witness ==
  \E i, j \in Successes :
    /\ chat.messages[i].found = 0
    /\ chat.messages[j].found > 0
    /\ chat.messages[i].n = <<0, 0, 0, 0>>
    /\ chat.messages[j].n = <<0, 0, 0, 0>>
    /\ chat.messages[i].content = chat.messages[j].content

C22_ChildCreatedOnce ==
  \A t \in ChildTables : \A c, d \in WrittenBy(t, inv) :
    c.src = d.src => c = d

\* C23: all I/O of an invocation is sequential.  At most one call is in
\* flight; it is the call of the statement the handler stands at; the
\* completion call is in flight only before any insert, an insert only after
\* the completion call has returned its JSON, and never an insert that has
\* already returned; no call is in flight when the response is built or
\* sent.
C23_SequentialIO ==
  /\ Len(inflight) <= 1
  /\ \A i \in 1..Len(inflight) :
       /\ inflight[i] \in Pending
       /\ inflight[i].to = "completion" =>
            fetchCalls = 0 /\ AttemptsBy(inv) = {}
       /\ inflight[i].to # "completion" =>
            /\ fetchCalls = 1 /\ fetched = "json"
            /\ \A a \in AttemptsBy(inv) :
                 ~ /\ log[a].table = inflight[i].to
                   /\ log[a].pidx = inflight[i].pidx
                   /\ log[a].cidx = inflight[i].cidx
  /\ pc \in {"respond", "done"} => inflight = <<>>

\* a child insert is in flight after the program insert and an earlier
\* child insert have returned
C23_Witness ==
  /\ Len(inflight) = 1
  /\ inflight[1].to \in ChildTables
  /\ \E a, b \in AttemptsBy(inv) :
       /\ a < b
       /\ log[a].table = "research_programs"
       /\ log[b].table \in ChildTables

\* pairs of an inserted program and an entry of a child array that carries
\* its title
MatchingPairs ==
  {x \in ProgramAttemptsBy(inv) \X (ChildKeys \X (1..MaxChildren)) :
     /\ log[x[1]].ok
     /\ x[2][2] <= Len(Arr(extractedData, x[2][1]))
     /\ Arr(extractedData, x[2][1])[x[2][2]]
          = extractedData.programs[log[x[1]].pidx]}

\* C25: provided every call returns, an invocation that has received its
\* request ends with a response; it has then made at most one insert call
\* per program entry and one per pair of an inserted program and a matching
\* child entry; the response stands once it is there, and none is there
\* while a call is pending.
C25_Terminates ==
  /\ (pc = "handle") ~> (pc = "done" /\ response.status \in {200, 500})
  /\ [](Cardinality(AttemptsBy(inv))
          <= Len(Arr(extractedData, "programs")) + Cardinality(MatchingPairs))
  /\ [](Cardinality(ProgramAttemptsBy(inv))
          <= Len(Arr(extractedData, "programs")))
  /\ [](response # NoResponse => pc = "done" /\ inflight = <<>>)
  /\ [][response # NoResponse => response' = response]_vars

\* an invocation ended after as many insert calls as the bound allows, three
\* or more
C25_Witness ==
  /\ pc = "done"
  /\ response.status = 200
  /\ Len(log) >= 3
  /\ Len(log) = Len(extractedData.programs) + Cardinality(MatchingPairs)

\* invocations that are over
Over == {n \in 1..MaxInv : n < inv \/ (n = inv /\ pc = "done")}

\* C24: a cancelled invocation leaves what it inserted, and nothing ever
\* completes or removes it.  The step that cancels an invocation leaves the
\* store as it is; no step adds a row to, or takes a row from, the rows of
\* an invocation that is over; and no row refers to a program written by
\* another invocation than its own.
C24_NoReconciliation ==
  /\ [][(pc # "done" /\ pc' = "done" /\ response' = NoResponse) => db' = db]_vars
  /\ [][\A n \in Over : \A t \in AllTables :
          {r \in db'[t] : r.inv = n} = WrittenBy(t, n)]_vars
  /\ [](\A t \in ChildTables : \A c \in db[t] :
          \A p \in db.research_programs : p.id = c.program_id => p.inv = c.inv)

\* the first invocation was cancelled after the first of the two children
\* of its program; the message was submitted again and went through, and
\* the program of the first invocation still has one child
C24_Witness ==
  /\ inv = 2
  /\ pc = "done"
  /\ response.status = 200
  /\ \E p \in WrittenBy("research_programs", 1) :
       /\ Cardinality({c \in ChildRowsBy(1) : c.program_id = p.id}) = 1
       /\ Cardinality({x \in ChildKeys \X (1..MaxChildren) :
              /\ x[2] <= Len(extractedData[x[1]])
              /\ extractedData[x[1]][x[2]] = p.title}) = 2
  /\ \E q \in WrittenBy("research_programs", 2) :
       Cardinality({c \in ChildRowsBy(2) : c.program_id = q.id}) = 2

\* C26: the handler only inserts.  No step of an invocation removes or
\* changes a row of the store: every row of the four relations, the rows of
\* earlier invocations included, is in the store after the step as it was
\* before, and an invocation that is over has the rows it had.
C26_InsertOnly ==
  /\ [][\A t \in AllTables : db[t] \subseteq db'[t]]_vars
  /\ [][\A n \in 1..MaxInv : n < inv =>
          \A t \in AllTables : {r \in db'[t] : r.inv = n} = WrittenBy(t, n)]_vars

\* the second invocation has written a program of a title that the first
\* had stored with a child, and both programs and the child are there
C26_Witness ==
  /\ inv = 2
  /\ pc = "done"
  /\ \E p \in WrittenBy("research_programs", 1) :
       /\ \E q \in WrittenBy("research_programs", 2) :
            q.title = p.title /\ q.user_id = p.user_id
       /\ \E c \in ChildRowsBy(1) : c.program_id = p.id

\* C27: a failure response implies that the invocation wrote no row.
C27_FailureWroteNothing ==
  (Responded /\ response.status = 500) =>
    \A t \in AllTables : WrittenBy(t, inv) = {}

\* C28: a request whose message or userId is missing or empty is rejected
\* with the failure response of the input check, whether or not the
\* credential is there, without a completion call and without an insert.
C28_InputRejectedFirst ==
  (Responded /\ (req.message = "" \/ req.userId = "")) =>
    /\ response.status = 500
    /\ response.body.success = FALSE
    /\ response.body.error = "Message and userId are required"
    /\ fetchCalls = 0
    /\ fetched = "none"
    /\ AttemptsBy(inv) = {}
    /\ \A t \in AllTables : db[t] = {}

\* a request without userId was rejected by the input check although the
\* credential is missing too
C28_Witness ==
  /\ Responded
  /\ req.message # ""
  /\ req.userId = ""
  /\ openAIApiKey = ""
  /\ response.body.error = "Message and userId are required"

\* place of a relation in the order of the loops of one program iteration
Rank(table) ==
  CASE table = "research_programs" -> 0
    [] table = "program_deadlines" -> 1
    [] table = "program_people" -> 2
    [] table = "program_links" -> 3

\* C29: the order of the insert calls.  Of two insert calls of an
\* invocation the earlier is that of the earlier program, or within one
\* program that of the earlier loop (program, deadlines, people, links), or
\* within one loop that of the earlier entry; and each of results.deadlines,
\* results.people and results.links is ordered by program first and by the
\* place of the entry in its array second.
C29_NestedOrder ==
  /\ \A a, b \in AttemptsBy(inv) : a < b =>
       \/ log[a].pidx < log[b].pidx
       \/ /\ log[a].pidx = log[b].pidx
          /\ \/ Rank(log[a].table) < Rank(log[b].table)
             \/ /\ log[a].table = log[b].table
                /\ log[a].cidx < log[b].cidx
  /\ \A k \in ChildKeys : \A i, j \in 1..Len(results[k]) : i < j =>
       \/ results[k][i].via < results[k][j].via
       \/ /\ results[k][i].via = results[k][j].via
          /\ results[k][i].src < results[k][j].src

\* the second entry of an array belongs to the first program and the first
\* entry to the second: the result array holds the second entry first
C29_Witness ==
  /\ pc = "done"
  /\ Extracted
  /\ response.status = 200
  /\ \E k \in ChildKeys :
       /\ Len(results[k]) = 2
       /\ results[k][1].via = 1 /\ results[k][1].src = 2
       /\ results[k][2].via = 2 /\ results[k][2].src = 1

Blank(text) == text \in {"", " "}

LastMessage(c) == c.messages[Len(c.messages)]

\* C30: the chat client has at most one request in flight.  After the welcome
\* message the list alternates user message, assistant message; isLoading
\* holds exactly while the last message is a user message without its
\* answer; the handler runs only then, on the text of that message; the
\* number of invocations started is the number of user messages.  A step
\* taken with blank input or while isLoading starts no invocation and
\* appends no user message; a step that appends a user message starts the
\* invocation with the trimmed text, clears the input and sets isLoading; a
\* step that appends an assistant message appends the summary on status 200
\* and the apology otherwise, and resets isLoading.
C30_OneRequestInFlight ==
  /\ [](/\ chat.messages[1].type = "system"
        /\ \A i \in 2..Len(chat.messages) :
             /\ chat.messages[i].type =
                  IF i % 2 = 0 THEN "user" ELSE "assistant"
             /\ chat.messages[i].type = "user" =>
                  chat.messages[i].content = "msg"
        /\ chat.isLoading <=> Len(chat.messages) % 2 = 0
        /\ pc \notin {"idle", "done"} =>
             /\ chat.isLoading
             /\ req.message = LastMessage(chat).content
        /\ inv = IF pc = "idle" THEN Len(chat.messages) \div 2 + 1
                               ELSE Len(chat.messages) \div 2)
  /\ [][(Blank(chat.input) \/ chat.isLoading) =>
          /\ ~(pc = "idle" /\ pc' # "idle")
          /\ \/ chat'.messages = chat.messages
             \/ /\ chat'.messages =
                     Append(chat.messages, LastMessage(chat'))
                /\ LastMessage(chat').type = "assistant"]_vars
  /\ [][Len(chat'.messages) # Len(chat.messages) =>
          /\ chat'.messages = Append(chat.messages, LastMessage(chat'))
          /\ LastMessage(chat').type = "user" =>
               /\ pc = "idle" /\ pc' = "handle"
               /\ ~chat.isLoading /\ chat'.isLoading
               /\ chat'.input = ""
               /\ req'.message = "msg"
               /\ LastMessage(chat').content = "msg"
          /\ LastMessage(chat').type = "assistant" =>
               /\ pc = "done" /\ UNCHANGED <<pc, inv, req, response>>
               /\ chat.isLoading /\ ~chat'.isLoading
               /\ LastMessage(chat') =
                    IF response.status = 200
                      THEN SummaryMessage(response.body)
                      ELSE ErrorMessage(response.body.error)]_vars

\* two exchanges are complete, the first answered by the apology and the
\* second by a summary, and a third text is typed
C30_Witness ==
  /\ Len(chat.messages) = 5
  /\ ~chat.isLoading
  /\ chat.messages[3] = ErrorMessage(chat.messages[3].error)
  /\ chat.messages[5].content = NothingFound
  /\ chat.input = " msg "
====
